---- MODULE Spec2Model ----
(***************************************************************************)
(* A model of the multiplayer state-synchronisation engine:                *)
(*   src/server.py  GameServer (session controller, fixed-tick simulation, *)
(*                  delayed broadcast)                                      *)
(*   src/client.py  GameClient (snapshot buffer, interpolation)             *)
(*                                                                         *)
(* Coroutines are modelled at the granularity of asyncio: a step runs from *)
(* one suspension point (an await that can yield) to the next.             *)
(* Coordinates are fixed-point numbers, SCALE sub-units per world unit.    *)
(* Player ids "player_<n>" and coin ids "coin_<n>" are modelled by n.      *)
(***************************************************************************)
EXTENDS Integers, Sequences, FiniteSets, TLC

VARIABLES
    players,            \* GameServer.players: insertion-ordered dict, as a sequence of Player
    coins,              \* GameServer.coins: insertion-ordered dict, as a sequence of Coin
    last_coin_spawn,    \* GameServer.last_coin_spawn
    coin_counter,       \* GameServer.coin_counter
    connected_clients,  \* GameServer.connected_clients
    player_id_map,      \* GameServer.player_id_map: websocket -> player id (NoId: no entry)
    game_started,       \* GameServer.game_started
    stop_event,         \* GameServer.stop_event
    hpc,                \* per websocket: where its handle_client coroutine is
    hpid,               \* per websocket: handle_client's local player_id
    open,               \* per websocket: the connection has not been closed
    lpc,                \* where the game_loop coroutine is
    pending,            \* delayed_send coroutines not yet run: <<websocket, message>>
    now,                \* the latest reading of time.time()
    ticks,              \* number of simulation ticks performed
    inflight,           \* process_delayed_message tasks not yet run: [ws, seq, data]
    nread,              \* number of messages the handlers have read
    applied,            \* the process_delayed_message tasks that have run, as they ran
    client,             \* per websocket: player_id and game_started of the client behind it
    state_buffer,       \* per websocket: GameClient.state_buffer of the client behind it
    render,             \* latest value returned by GameClient.get_interpolated_state
    probe,              \* the buffer and render time that call of get_interpolated_state read
    rng,                \* the values the random source may return in this run
    awards,             \* the (coin id, player id) score increments of the latest tick
    starts,             \* number of Waiting->Active transitions performed
    sent                \* per websocket: how many messages of each type were sent to it

entityVars == <<players, coins, last_coin_spawn, coin_counter>>
sessionVars == <<connected_clients, player_id_map, game_started, stop_event>>
handlerVars == <<hpc, hpid, open>>
loopVars == <<lpc, pending, now, ticks>>
inputVars == <<inflight, nread, applied>>
clientVars == <<client, state_buffer>>
renderVars == <<render, probe>>

vars == <<entityVars, sessionVars, handlerVars, loopVars, inputVars, clientVars, renderVars,
          rng, awards, starts, sent>>

-----------------------------------------------------------------------------
(* Program constants *)

GAME_WIDTH == 500
GAME_HEIGHT == 375
PLAYER_RADIUS == 25
COIN_RADIUS == 15
COIN_SPAWN_INTERVAL == 5
PLAYER_SPEED == 300
TICK_RATE == 120
START_PLAYERS == 2
INITIAL_COINS == 5
BUFFER_CAPACITY == 40

(* Bounds of the model *)

SCALE == 10          \* sub-units per world unit of the fixed-point coordinates
MaxSockets == 3      \* connections accepted in a run
MaxTime == 2         \* time.time() returns 0..MaxTime
MaxTicks == 2        \* simulation ticks in a run

Sockets == 1..MaxSockets
NoId == -1

-----------------------------------------------------------------------------
(* Arithmetic *)

Max(a, b) == IF b > a THEN b ELSE a
Min(a, b) == IF b < a THEN b ELSE a
Abs(a) == IF a < 0 THEN 0 - a ELSE a
Sign(a) == IF a < 0 THEN 0 - 1 ELSE IF a > 0 THEN 1 ELSE 0

\* floor of the square root of n, known to lie in lo..hi
RECURSIVE ISqrtIn(_, _, _)
ISqrtIn(n, lo, hi) ==
    IF lo >= hi THEN lo
    ELSE LET mid == (lo + hi + 1) \div 2
         IN  IF mid * mid <= n THEN ISqrtIn(n, mid, hi) ELSE ISqrtIn(n, lo, mid - 1)

ISqrt(n) == ISqrtIn(n, 0, Min(n, 46340))

\* truncating division (the sign is kept apart from the magnitude)
TDiv(a, b) == Sign(a) * Sign(b) * (Abs(a) \div Abs(b))

-----------------------------------------------------------------------------
(* Insertion-ordered dicts keyed by the records' id field *)

Keys(d) == {d[i].id : i \in 1..Len(d)}

\* d[rec.id] = rec: an existing key keeps its place, a new key goes last
DictSet(d, rec) ==
    IF rec.id \in Keys(d)
    THEN [i \in 1..Len(d) |-> IF d[i].id = rec.id THEN rec ELSE d[i]]
    ELSE Append(d, rec)

\* del d[id]
DictDel(d, id) == SelectSeq(d, LAMBDA r : r.id # id)

-----------------------------------------------------------------------------
(* Values an input component can hold once json.loads has decoded it *)

Num(n) == [t |-> "num", v |-> n]
NaN == [t |-> "nan", v |-> 0]
PosInf == [t |-> "inf", v |-> 1]
NegInf == [t |-> "inf", v |-> 0 - 1]
TooBig == [t |-> "big", v |-> 1]      \* finite, but its square overflows a float
NotANumber == [t |-> "str", v |-> 0]  \* a string, null, list or object

-----------------------------------------------------------------------------
(* Data classes *)

Player(id, spot) ==
    [id |-> id, x |-> spot[1] * SCALE, y |-> spot[2] * SCALE, color |-> spot[3],
     score |-> 0, input_x |-> Num(0), input_y |-> Num(0)]

Coin(id, spot) == [id |-> id, x |-> spot[1] * SCALE, y |-> spot[2] * SCALE]

PlayerToDict(p) == [id |-> p.id, x |-> p.x, y |-> p.y, score |-> p.score, color |-> p.color]

CoinToDict(c) == [id |-> c.id, x |-> c.x, y |-> c.y]

-----------------------------------------------------------------------------
(* GameServer.update_game_state *)

\* an input pair on which line 90 raises (TypeError, OverflowError)
Raises(p) == {p.input_x.t, p.input_y.t} \cap {"str", "big"} # {}

\* vx * TICK_DELTA (or vy * TICK_DELTA) for the input component i of player p:
\* a number of sub-units, or NaN
Displacement(p, i) ==
    LET ix == p.input_x
        iy == p.input_y
        mag2 == ix.v * ix.v + iy.v * iy.v
        magS == ISqrt(mag2 * SCALE * SCALE)
    IN  IF "nan" \in {ix.t, iy.t} THEN [nan |-> FALSE, v |-> 0]
        ELSE IF "inf" \in {ix.t, iy.t}
             THEN [nan |-> i.t = "inf", v |-> 0]
        ELSE IF mag2 > 0
             THEN [nan |-> FALSE,
                   v |-> TDiv(i.v * PLAYER_SPEED * SCALE * SCALE, magS * TICK_RATE)]
        ELSE [nan |-> FALSE, v |-> 0]

\* the clamp without its lower limit
ClampNoFloor(lo, hi, pos, d) == IF d.nan THEN hi ELSE Min(hi, pos + d.v)

\* max(lo, min(hi, pos + d)) with Python's min and max, which keep their first
\* argument when the comparison with the second is false (as it is with NaN)
Clamp(lo, hi, pos, d) ==
    LET inner == IF d.nan THEN hi ELSE Min(hi, pos + d.v)
    IN  Max(lo, inner)

\* lines 90-101 for one player
Move(p) ==
    [p EXCEPT
       !.x = Clamp(PLAYER_RADIUS * SCALE, (GAME_WIDTH - PLAYER_RADIUS) * SCALE,
                   p.x, Displacement(p, p.input_x)),
       !.y = Clamp(PLAYER_RADIUS * SCALE, (GAME_HEIGHT - PLAYER_RADIUS) * SCALE,
                   p.y, Displacement(p, p.input_y))]

\* index of the first player on which the movement loop raises, 0 when none
RaisesAt(ps) ==
    LET bad == {i \in 1..Len(ps) : Raises(ps[i])}
    IN  IF bad = {} THEN 0 ELSE CHOOSE i \in bad : \A j \in bad : i <= j

\* lines 89-101: the players before the one that raises have moved
MoveAll(ps) ==
    LET r == RaisesAt(ps)
    IN  [i \in 1..Len(ps) |-> IF r = 0 \/ i < r THEN Move(ps[i]) ELSE ps[i]]

\* line 106-107: dist < PLAYER_RADIUS + COIN_RADIUS
Collides(c, p) ==
    LET dx == c.x - p.x
        dy == c.y - p.y
        reach == (PLAYER_RADIUS + COIN_RADIUS) * SCALE
    IN  dx * dx + dy * dy < reach * reach

\* the scan without its break
ClaimantsNoBreak(ps, c) == {i \in 1..Len(ps) : Collides(c, ps[i])}

\* lines 105-110: the players whose score the scan of coin c increments
Claimants(ps, c) ==
    LET hits == {i \in 1..Len(ps) : Collides(c, ps[i])}
    IN  IF hits = {} THEN {} ELSE {CHOOSE i \in hits : \A j \in hits : i <= j}

\* lines 104-110: every (coin id, player id) score increment of the scan
Awards(ps, cs) ==
    UNION {{<<cs[k].id, ps[i].id>> : i \in Claimants(ps, cs[k])} : k \in 1..Len(cs)}

\* a scan whose Coins are never deleted
RemoveCoinsKeep(cs, gone) == cs

\* lines 112-113: the Coins of coins_to_remove are deleted
RemoveCoins(cs, gone) == SelectSeq(cs, LAMBDA c : c.id \notin gone)

\* the whole of update_game_state: t is what time.time() returns, spot what
\* random.randint returns if a coin is spawned
UpdateGameState(t, spot) ==
    LET spawn == t - last_coin_spawn > COIN_SPAWN_INTERVAL
        cs1 == IF spawn THEN DictSet(coins, Coin(coin_counter, spot)) ELSE coins
        raised == RaisesAt(players) # 0
        ps1 == MoveAll(players)
        aw == IF raised THEN {} ELSE Awards(ps1, cs1)
        ps2 == [i \in 1..Len(ps1) |->
                  [ps1[i] EXCEPT !.score = @ + Cardinality({a \in aw : a[2] = ps1[i].id})]]
        gone == {a[1] : a \in aw}
    IN  [players |-> ps2,
         coins |-> RemoveCoins(cs1, gone),
         coin_counter |-> IF spawn THEN coin_counter + 1 ELSE coin_counter,
         last_coin_spawn |-> IF spawn THEN t ELSE last_coin_spawn,
         awards |-> aw,
         raised |-> raised]

-----------------------------------------------------------------------------
(* Messages, and GameClient.receive_messages *)

InitMsg(id) == [type |-> "init", player_id |-> id]
StartMsg == [type |-> "game_start"]
StateUpdate(t, ps, cs) ==
    [type |-> "state_update", timestamp |-> t,
     players |-> [i \in 1..Len(ps) |-> PlayerToDict(ps[i])],
     coins |-> [i \in 1..Len(cs) |-> CoinToDict(cs[i])]]

\* the append without the eviction
BufferAppendNoEvict(buf, m) == Append(buf, m)

\* client.py lines 67-69
BufferAppend(buf, m) ==
    LET b == Append(buf, m)
    IN  IF Len(b) > BUFFER_CAPACITY THEN Tail(b) ELSE b

\* client.py lines 50-64: the fields of the client after message m
OnMessageClient(cl, m) ==
    IF m.type = "init" THEN [cl EXCEPT !.player_id = m.player_id]
    ELSE IF m.type = "game_start" THEN [cl EXCEPT !.game_started = TRUE]
    ELSE cl

\* client.py lines 66-69: the buffer of the client after message m
OnMessageBuffer(buf, m) ==
    IF m.type = "state_update" THEN BufferAppend(buf, m) ELSE buf

\* a delivery that one closed connection makes fail for all
ReachedAllOrNone(ws) == IF \A c \in ws : open[c] THEN ws ELSE {}

\* websocket.send(m) on each websocket of ws. A websocket is a FIFO channel read
\* by the client's receive loop alone, so the step that sends a message hands it
\* to receive_messages; a send on a closed connection delivers nothing
Reached(ws) == {c \in ws : open[c]}
ClientAfter(ws, m) ==
    [c \in Sockets |-> IF c \in ws THEN OnMessageClient(client[c], m) ELSE client[c]]
BufferAfter(ws, m) ==
    [c \in Sockets |-> IF c \in ws THEN OnMessageBuffer(state_buffer[c], m)
                       ELSE state_buffer[c]]
SentAfter(ws, m) ==
    [c \in Sockets |-> IF c \in ws THEN [sent[c] EXCEPT ![m.type] = @ + 1] ELSE sent[c]]

\* spawn_coin called n times, spots[k] being the k-th random position
SpawnCoins(cs, cc, spots, n) ==
    cs \o [k \in 1..n |-> Coin(cc + k - 1, spots[k])]

-----------------------------------------------------------------------------
(* GameServer.handle_client, one coroutine per websocket *)

\* line 142
NewPlayerId == Len(players)

\* lines 142-162: a connection is accepted, its Player is stored and the send
\* of init is started
Connect(w) ==
    /\ hpc[w] = "idle"
    /\ \A v \in Sockets : v < w => hpc[v] # "idle"
    /\ ~stop_event
    /\ \E spot \in rng.player :
         players' = DictSet(players, Player(NewPlayerId, spot))
    /\ connected_clients' = connected_clients \cup {w}
    /\ player_id_map' = [player_id_map EXCEPT ![w] = NewPlayerId]
    /\ hpid' = [hpid EXCEPT ![w] = NewPlayerId]
    /\ open' = [open EXCEPT ![w] = TRUE]
    /\ hpc' = [hpc EXCEPT ![w] = "init"]
    /\ client' = ClientAfter({w}, InitMsg(NewPlayerId))
    /\ sent' = SentAfter({w}, InitMsg(NewPlayerId))
    /\ UNCHANGED <<coins, last_coin_spawn, coin_counter, game_started, stop_event,
                   loopVars, inputVars, state_buffer, renderVars, rng, awards, starts>>

\* line 162 raises ConnectionClosed: the coroutine ends outside the try block
InitFails(w) ==
    /\ hpc[w] = "init"
    /\ ~open[w]
    /\ hpc' = [hpc EXCEPT ![w] = "dead"]
    /\ UNCHANGED <<entityVars, sessionVars, hpid, open, loopVars, inputVars, clientVars,
                   renderVars, rng, awards, starts, sent>>

\* line 165 without its "not self.game_started"
StartConditionNoFlag == Len(players) = START_PLAYERS

\* line 165
StartCondition == Len(players) = START_PLAYERS /\ ~game_started

\* lines 162-177: the send of init returns and the session starts
StartGame(w) ==
    /\ hpc[w] = "init"
    /\ open[w]
    /\ StartCondition
    /\ game_started' = TRUE
    /\ starts' = starts + 1
    /\ \E spots \in [1..INITIAL_COINS -> rng.coin] :
         coins' = SpawnCoins(coins, coin_counter, spots, INITIAL_COINS)
    /\ coin_counter' = coin_counter + INITIAL_COINS
    /\ client' = ClientAfter(Reached(connected_clients), StartMsg)
    /\ sent' = SentAfter(Reached(connected_clients), StartMsg)
    /\ hpc' = [hpc EXCEPT ![w] = "gather"]
    /\ UNCHANGED <<players, last_coin_spawn, connected_clients, player_id_map,
                   stop_event, hpid, open, loopVars, inputVars, state_buffer, renderVars, rng,
                   awards>>

\* lines 162-179: the send of init returns into a session that is already Active
JoinStarted(w) ==
    /\ hpc[w] = "init"
    /\ open[w]
    /\ ~StartCondition
    /\ game_started
    /\ client' = ClientAfter({w}, StartMsg)
    /\ sent' = SentAfter({w}, StartMsg)
    /\ hpc' = [hpc EXCEPT ![w] = "start"]
    /\ UNCHANGED <<entityVars, sessionVars, hpid, open, loopVars, inputVars, state_buffer,
                   renderVars, rng, awards, starts>>

\* lines 162-181: the send of init returns and the session keeps Waiting
JoinWaiting(w) ==
    /\ hpc[w] = "init"
    /\ open[w]
    /\ ~StartCondition
    /\ ~game_started
    /\ hpc' = [hpc EXCEPT ![w] = "read"]
    /\ UNCHANGED <<entityVars, sessionVars, hpid, open, loopVars, inputVars, clientVars,
                   renderVars, rng, awards, starts, sent>>

\* lines 174-177: gather returns (return_exceptions=True: no send can raise here)
StartSent(w) ==
    /\ hpc[w] = "gather"
    /\ hpc' = [hpc EXCEPT ![w] = "read"]
    /\ UNCHANGED <<entityVars, sessionVars, hpid, open, loopVars, inputVars, clientVars,
                   renderVars, rng, awards, starts, sent>>

\* line 179: the send returns, or raises ConnectionClosed outside the try block
JoinSent(w) ==
    /\ hpc[w] = "start"
    /\ hpc' = [hpc EXCEPT ![w] = IF open[w] THEN "read" ELSE "dead"]
    /\ UNCHANGED <<entityVars, sessionVars, hpid, open, loopVars, inputVars, clientVars,
                   renderVars, rng, awards, starts, sent>>

\* lines 182-196: the read loop ends on the closed connection and the finally
\* block runs
Disconnect(w) ==
    /\ hpc[w] = "read"
    /\ ~open[w]
    /\ connected_clients' = connected_clients \ {w}
    /\ players' = DictDel(players, hpid[w])
    /\ player_id_map' = [player_id_map EXCEPT ![w] = NoId]
    /\ stop_event' = (stop_event \/ (game_started /\ Len(players') = 0))
    /\ hpc' = [hpc EXCEPT ![w] = "done"]
    /\ UNCHANGED <<coins, last_coin_spawn, coin_counter, game_started, hpid, open,
                   loopVars, inputVars, clientVars, renderVars, rng, awards, starts, sent>>

\* the peer closes the connection, or the transport drops it
ClientClose(w) ==
    /\ hpc[w] \notin {"idle", "done", "dead"}
    /\ open[w]
    /\ open' = [open EXCEPT ![w] = FALSE]
    /\ UNCHANGED <<entityVars, sessionVars, hpc, hpid, loopVars, inputVars, clientVars,
                   renderVars, rng, awards, starts, sent>>

-----------------------------------------------------------------------------
(* Inbound messages: handle_client's read loop and process_delayed_message *)

Absent == [t |-> "absent", v |-> 0]   \* the key is not in the decoded object

\* a decoded input message
InputMsg(ix, iy) == [type |-> "input", input_x |-> ix, input_y |-> iy]

\* data.get(key, 0)
GetOrZero(v) == IF v.t = "absent" THEN Num(0) ELSE v

\* lines 182-183: the read loop takes a message and leaves it to a new task
ReadInput(w, data) ==
    /\ hpc[w] = "read"
    /\ open[w]
    /\ inflight' = inflight \cup {[ws |-> w, seq |-> nread, data |-> data]}
    /\ nread' = nread + 1
    /\ UNCHANGED <<entityVars, sessionVars, handlerVars, loopVars, applied, clientVars,
                   renderVars, rng, awards, starts, sent>>

\* the lookup of line 204 replaced by the id the sender's handler had assigned
ApplyToByHandlerId(ps, w, data) ==
    IF data.type = "input" /\ hpid[w] \in Keys(ps)
    THEN [i \in 1..Len(ps) |->
            IF ps[i].id = hpid[w]
            THEN [ps[i] EXCEPT !.input_x = GetOrZero(data.input_x),
                               !.input_y = GetOrZero(data.input_y)]
            ELSE ps[i]]
    ELSE ps

\* lines 203-207: players after the task's message is applied
ApplyTo(ps, w, data) ==
    IF data.type = "input" /\ player_id_map[w] \in Keys(ps)
    THEN [i \in 1..Len(ps) |->
            IF ps[i].id = player_id_map[w]
            THEN [ps[i] EXCEPT !.input_x = GetOrZero(data.input_x),
                               !.input_y = GetOrZero(data.input_y)]
            ELSE ps[i]]
    ELSE ps

\* lines 198-209: a task wakes from its delay and runs to its end. applied
\* keeps the task with what it found: whether its sender's handler had finished
\* (gone) and whether a Player with the id that handler had assigned was in the
\* store (taken)
ApplyInput(task) ==
    /\ task \in inflight
    /\ inflight' = inflight \ {task}
    /\ players' = ApplyTo(players, task.ws, task.data)
    /\ applied' = applied \cup
                    {[ws |-> task.ws, seq |-> task.seq, data |-> task.data,
                      gone |-> hpc[task.ws] = "done",
                      taken |-> hpid[task.ws] \in Keys(players)]}
    /\ UNCHANGED <<coins, last_coin_spawn, coin_counter, sessionVars, handlerVars,
                   loopVars, nread, clientVars, renderVars, rng, awards, starts, sent>>

-----------------------------------------------------------------------------
(* GameServer.game_loop and GameServer.broadcast_state *)

\* a loop that starts the broadcast and goes on
FireAndForget == FALSE

\* line 215 and lines 136-139: the loop awaits the broadcast, which awaits every
\* delayed_send
AwaitsBroadcast == TRUE

\* an iteration without the test of line 213
TicksWhileWaiting == TRUE

\* line 213: the iteration simulates and broadcasts
SessionActive == game_started

\* what time.time() may return after it returned t
ClockReadings(t) == t..MaxTime

\* lines 212-216: one iteration of an Active session, up to its next suspension
Tick ==
    /\ lpc = "sleep"
    /\ ~stop_event
    /\ SessionActive
    /\ ticks < MaxTicks
    /\ \E t1 \in ClockReadings(now), spot \in rng.coin :
       \E t2 \in ClockReadings(t1) :
         LET u == UpdateGameState(t1, spot)
             m == StateUpdate(t2, u.players, u.coins)
             sends == IF u.raised THEN {} ELSE {<<c, m>> : c \in connected_clients}
         IN  /\ players' = u.players
             /\ coins' = u.coins
             /\ coin_counter' = u.coin_counter
             /\ last_coin_spawn' = u.last_coin_spawn
             /\ awards' = u.awards
             /\ now' = IF u.raised THEN t1 ELSE t2
             /\ pending' = pending \cup sends
             /\ lpc' = IF u.raised THEN "crashed"
                       ELSE IF AwaitsBroadcast /\ sends # {} THEN "gather"
                       ELSE "sleep"
    /\ ticks' = ticks + 1
    /\ UNCHANGED <<sessionVars, handlerVars, inputVars, clientVars, renderVars, rng,
                   starts, sent>>

\* line 212: the loop sees stop_event set and returns
LoopExit ==
    /\ lpc = "sleep"
    /\ stop_event
    /\ lpc' = "stopped"
    /\ UNCHANGED <<entityVars, sessionVars, handlerVars, pending, now, ticks,
                   inputVars, clientVars, renderVars, rng, awards, starts, sent>>

\* lines 129-134: one delayed_send wakes and sends; an exception is swallowed.
\* With the last one gather returns and the loop goes to sleep (line 216)
DelayedSend(c, m) ==
    /\ <<c, m>> \in pending
    /\ pending' = pending \ {<<c, m>>}
    /\ client' = ClientAfter(Reached({c}), m)
    /\ state_buffer' = BufferAfter(Reached({c}), m)
    /\ sent' = SentAfter(Reached({c}), m)
    /\ lpc' = IF lpc = "gather" /\ pending' = {} THEN "sleep" ELSE lpc
    /\ UNCHANGED <<entityVars, sessionVars, handlerVars, now, ticks, inputVars,
                   renderVars, rng, awards, starts>>

-----------------------------------------------------------------------------
(* The server with its clients, from construction *)

\* GameClient.current_display_state (client.py line 26)
EmptyDisplay == [players |-> <<>>, coins |-> <<>>]

NoProbe == [buf |-> <<>>, rt |-> 0]

\* the random source of the session runs: one position and colour for players,
\* one position for coins, within reach of a player there
SessionRng == [player |-> {<<250, 180, 200>>}, coin |-> {<<270, 190>>}]

Init ==
    /\ players = <<>>
    /\ coins = <<>>
    /\ last_coin_spawn = 0
    /\ coin_counter = 0
    /\ connected_clients = {}
    /\ player_id_map = [w \in Sockets |-> NoId]
    /\ game_started = FALSE
    /\ stop_event = FALSE
    /\ hpc = [w \in Sockets |-> "idle"]
    /\ hpid = [w \in Sockets |-> NoId]
    /\ open = [w \in Sockets |-> FALSE]
    /\ lpc = "sleep"
    /\ pending = {}
    /\ now = 0
    /\ ticks = 0
    /\ inflight = {}
    /\ nread = 0
    /\ applied = {}
    /\ client = [w \in Sockets |-> [player_id |-> NoId, game_started |-> FALSE]]
    /\ state_buffer = [w \in Sockets |-> <<>>]
    /\ render = EmptyDisplay
    /\ probe = NoProbe
    /\ rng = SessionRng
    /\ awards = {}
    /\ starts = 0
    /\ sent = [w \in Sockets |-> [init |-> 0, game_start |-> 0, state_update |-> 0]]

\* the connection handlers and the peers of their connections
NextSession ==
    \/ \E w \in Sockets : Connect(w)
    \/ \E w \in Sockets : InitFails(w)
    \/ \E w \in Sockets : StartGame(w)
    \/ \E w \in Sockets : JoinStarted(w)
    \/ \E w \in Sockets : JoinWaiting(w)
    \/ \E w \in Sockets : StartSent(w)
    \/ \E w \in Sockets : JoinSent(w)
    \/ \E w \in Sockets : Disconnect(w)
    \/ \E w \in Sockets : ClientClose(w)
    \/ LoopExit

\* the tick loop and its broadcasts
NextLoop ==
    \/ Tick
    \/ \E a \in pending : DelayedSend(a[1], a[2])

Next == NextSession \/ NextLoop

Spec == Init /\ [][Next]_vars

\* The session controller alone. The tick loop writes the fields of Players and
\* the Coins, never the membership of players, connected_clients, game_started
\* or a handler's position, which is all the handlers read.
SpecSession == Init /\ [][NextSession]_vars

-----------------------------------------------------------------------------
(* The tick loop of an Active session: two clients have connected, the session
   has started and both handlers are in their read loops *)

InitActive ==
    /\ \E s1 \in rng.player, s2 \in rng.player :
         players = <<Player(0, s1), Player(1, s2)>>
    /\ \E spots \in [1..INITIAL_COINS -> rng.coin] :
         coins = SpawnCoins(<<>>, 0, spots, INITIAL_COINS)
    /\ coin_counter = INITIAL_COINS
    /\ connected_clients = 1..START_PLAYERS
    /\ player_id_map = [w \in Sockets |-> IF w <= START_PLAYERS THEN w - 1 ELSE NoId]
    /\ game_started = TRUE
    /\ stop_event = FALSE
    /\ hpc = [w \in Sockets |-> IF w <= START_PLAYERS THEN "read" ELSE "idle"]
    /\ hpid = [w \in Sockets |-> IF w <= START_PLAYERS THEN w - 1 ELSE NoId]
    /\ open = [w \in Sockets |-> w <= START_PLAYERS]
    /\ lpc = "sleep"
    /\ pending = {}
    /\ now = 0
    /\ ticks = 0
    /\ inflight = {}
    /\ nread = 0
    /\ applied = {}
    /\ client = [w \in Sockets |->
                   IF w <= START_PLAYERS
                   THEN [player_id |-> w - 1, game_started |-> TRUE]
                   ELSE [player_id |-> NoId, game_started |-> FALSE]]
    /\ state_buffer = [w \in Sockets |-> <<>>]
    /\ render = EmptyDisplay
    /\ probe = NoProbe
    /\ awards = {}
    /\ starts = 1
    /\ sent = [w \in Sockets |->
                 IF w <= START_PLAYERS
                 THEN [init |-> 1, game_start |-> 1, state_update |-> 0]
                 ELSE [init |-> 0, game_start |-> 0, state_update |-> 0]]

InitLoop == rng = SessionRng /\ last_coin_spawn = 0 /\ InitActive

NextLoopActive ==
    \/ Tick
    \/ \E a \in pending : DelayedSend(a[1], a[2])
    \/ \E w \in Sockets : ClientClose(w)
    \/ \E w \in Sockets : Disconnect(w)
    \/ LoopExit

SpecLoop == InitLoop /\ [][NextLoopActive]_vars

-----------------------------------------------------------------------------
(* Session lifecycle *)

\* the clients whose connection is still up
Live(cs) == {c \in cs : open[c]}

\* C1: the Waiting->Active transition (game_started set, the 5 initial coins
\* spawned, game_start sent to every connected client) is performed at most
\* once, in a state with exactly 2 Players; game_started is set by nothing else.
C1_StartsOnceWithTwoPlayers ==
    [][/\ (starts' # starts) =>
            /\ starts = 0
            /\ starts' = 1
            /\ Len(players) = 2
            /\ ~game_started /\ game_started'
            /\ Len(coins') = Len(coins) + 5
            /\ \A c \in Live(connected_clients) :
                 sent'[c].game_start = sent[c].game_start + 1
       /\ (game_started' # game_started) => (starts' # starts)]_vars

\* a third client has connected to the started session and went on to its read
\* loop without a second transition
C1_Witness ==
    /\ starts = 1
    /\ Cardinality(connected_clients) = 3
    /\ \E w \in Sockets : w > 2 /\ hpc[w] = "read"

\* C2 as claimed: no state has 2 or more Players, every connected client's
\* handler in its read loop, and the session still Waiting.
C2_ActiveOnceTwoPlayersRead ==
    ~(/\ Len(players) >= 2
      /\ connected_clients # {}
      /\ \A c \in connected_clients : hpc[c] = "read"
      /\ ~game_started)

\* C3 as claimed: stop_event is set only in a started session and only by a
\* disconnect that leaves no client connected.
C3_StopsOnlyWhenEmpty ==
    [][(stop_event' /\ ~stop_event) =>
          /\ game_started
          /\ Live(connected_clients') = {}]_vars

\* C4 as claimed: the connected clients own pairwise distinct Players, and
\* there are as many Player records as connected clients.
C4_OnePlayerPerClient ==
    /\ \A a, b \in connected_clients :
         a # b => player_id_map[a] # player_id_map[b]
    /\ Len(players) = Cardinality(connected_clients)

-----------------------------------------------------------------------------
(* The simulation engine of an Active session: update_game_state under the
   inputs its two clients send *)

\* line 214: update_game_state has no suspension point and runs to its end, or
\* to the exception that ends the loop
Simulate ==
    /\ lpc = "sleep"
    /\ ~stop_event
    /\ SessionActive
    /\ ticks < MaxTicks
    /\ \E t \in ClockReadings(now), spot \in rng.coin :
         LET u == UpdateGameState(t, spot)
         IN  /\ players' = u.players
             /\ coins' = u.coins
             /\ coin_counter' = u.coin_counter
             /\ last_coin_spawn' = u.last_coin_spawn
             /\ awards' = u.awards
             /\ now' = t
             /\ lpc' = IF u.raised THEN "crashed" ELSE "sleep"
    /\ ticks' = ticks + 1
    /\ UNCHANGED <<sessionVars, handlerVars, pending, inputVars, clientVars,
                   renderVars, rng, starts, sent>>

\* random positions: Players in two opposite corners of their range, Coins
\* within reach of the first corner
SimRng == [player |-> {<<25, 25, 200>>, <<475, 350, 90>>}, coin |-> {<<15, 15>>}]

\* decoded messages: directions a client sends, and what else a peer may send
SimInputs ==
    {InputMsg(Num(1), Num(0)), InputMsg(Num(0 - 1), Num(0 - 1)),
     InputMsg(Num(3), Num(0 - 400)), InputMsg(PosInf, Num(1)),
     InputMsg(NaN, Num(1)), InputMsg(NotANumber, Num(0)),
     InputMsg(Num(0), TooBig), InputMsg(Absent, Num(1)), [type |-> "chat"]}

MaxInputs == 1       \* messages the handlers read in a run

\* the session has just started, COIN_SPAWN_INTERVAL after the server was
\* constructed (and last_coin_spawn set)
InitSim ==
    /\ rng = SimRng
    /\ last_coin_spawn = 0 - COIN_SPAWN_INTERVAL
    /\ InitActive

NextSim ==
    \/ \E w \in Sockets, data \in SimInputs : nread < MaxInputs /\ ReadInput(w, data)
    \/ \E task \in inflight : ApplyInput(task)
    \/ Simulate

SpecSim == InitSim /\ [][NextSim]_vars

-----------------------------------------------------------------------------
(* GameClient.get_interpolated_state *)

\* {p['id']: p for p in ps}: a repeated id keeps its first place and its last value
RECURSIVE ToDict(_)
ToDict(ps) ==
    IF ps = <<>> THEN <<>>
    ELSE DictSet(ToDict(SubSeq(ps, 1, Len(ps) - 1)), ps[Len(ps)])

\* d[id]
DictGet(d, id) == d[CHOOSE i \in 1..Len(d) : d[i].id = id]

\* lines 84-85, 100-101, 105-106: a snapshot returned as it is
Unmodified(snap) == [players |-> ToDict(snap.players), coins |-> snap.coins]

\* the scan run from the oldest entry to the newest
PrevIndexOldestFirst(buf, rt) ==
    LET hits == {i \in 1..Len(buf) : buf[i].timestamp <= rt}
    IN  IF hits = {} THEN 0 ELSE CHOOSE i \in hits : \A j \in hits : i <= j

\* lines 91-96: the index of prev_state, 0 when the scan finds none. The scan
\* runs from the newest entry to the oldest and stops at the first hit
PrevIndex(buf, rt) ==
    LET hits == {i \in 1..Len(buf) : buf[i].timestamp <= rt}
    IN  IF hits = {} THEN 0 ELSE CHOOSE i \in hits : \A j \in hits : j <= i

\* lines 108-109: alpha as a fraction
Alpha(prev, next, rt) ==
    LET time_diff == next.timestamp - prev.timestamp
    IN  IF time_diff = 0 THEN [num |-> 0, den |-> 1]
        ELSE [num |-> rt - prev.timestamp, den |-> time_diff]

\* lines 119-120: a + (b - a) * alpha
Lerp(a, b, alpha) == a + TDiv((b - a) * alpha.num, alpha.den)

\* lines 108-131
Interpolate(prev, next, rt) ==
    LET alpha == Alpha(prev, next, rt)
        prev_players == ToDict(prev.players)
        next_players == ToDict(next.players)
    IN  [players |->
            [i \in 1..Len(next_players) |->
               LET n == next_players[i]
               IN  IF n.id \in Keys(prev_players)
                   THEN [id |-> n.id,
                         x |-> Lerp(DictGet(prev_players, n.id).x, n.x, alpha),
                         y |-> Lerp(DictGet(prev_players, n.id).y, n.y, alpha),
                         score |-> n.score,
                         color |-> n.color]
                   ELSE n],
         coins |-> next.coins]

\* the fallbacks taken from the wrong end of the buffer
GetInterpolatedStateSwapped(buf, rt) ==
    IF Len(buf) < 2
    THEN IF Len(buf) > 0 THEN Unmodified(buf[Len(buf)]) ELSE EmptyDisplay
    ELSE LET i == PrevIndex(buf, rt)
         IN  IF i = 0 THEN Unmodified(buf[Len(buf)])
             ELSE IF i = Len(buf) THEN Unmodified(buf[1])
             ELSE Interpolate(buf[i], buf[i + 1], rt)

\* lines 78-131, render_time being time.time() - INTERPOLATION_OFFSET
GetInterpolatedState(buf, rt) ==
    IF Len(buf) < 2
    THEN IF Len(buf) > 0 THEN Unmodified(buf[Len(buf)]) ELSE EmptyDisplay
    ELSE LET i == PrevIndex(buf, rt)
         IN  IF i = 0 THEN Unmodified(buf[1])
             ELSE IF i = Len(buf) THEN Unmodified(buf[i])
             ELSE Interpolate(buf[i], buf[i + 1], rt)

\* GameClient.render (line 177): the client behind w computes its render state
Render(w, rt) ==
    /\ render' = GetInterpolatedState(state_buffer[w], rt)
    /\ probe' = [buf |-> state_buffer[w], rt |-> rt]
    /\ UNCHANGED <<entityVars, sessionVars, handlerVars, loopVars, inputVars,
                   clientVars, rng, awards, starts, sent>>

\* client.py lines 46-69: the client behind w takes message m off its websocket
Receive(w, m) ==
    /\ client' = [client EXCEPT ![w] = OnMessageClient(@, m)]
    /\ state_buffer' = [state_buffer EXCEPT ![w] = OnMessageBuffer(@, m)]
    /\ UNCHANGED <<entityVars, sessionVars, handlerVars, loopVars, inputVars,
                   renderVars, rng, awards, starts, sent>>

-----------------------------------------------------------------------------
(* One client, fed the messages a server may send it *)

MaxBuffered == 3     \* snapshots buffered in the interpolation runs

\* what the client's clock, less INTERPOLATION_OFFSET, may read
RenderTimes == (0 - 1)..(MaxTime + 1)

\* the Players and Coins of the snapshots: one Player with one Coin, and that
\* Player moved and scoring next to a second one, the Coin collected
Scene1 == [players |-> <<[Player(0, <<100, 100, 200>>) EXCEPT !.score = 0]>>,
           coins |-> <<Coin(0, <<15, 15>>)>>]
Scene2 == [players |-> <<[Player(1, <<300, 300, 90>>) EXCEPT !.score = 2],
                         [Player(0, <<201, 60, 60>>) EXCEPT !.score = 1]>>,
           coins |-> <<>>]

ClientMessages ==
    {StateUpdate(t, sc.players, sc.coins) : t \in 0..MaxTime, sc \in {Scene1, Scene2}}
    \cup {InitMsg(0), StartMsg}

\* the snapshot a ticking server sends after the buffered ones
StreamNext(buf) ==
    StateUpdate(IF buf = <<>> THEN 0 ELSE buf[Len(buf)].timestamp + 1,
                Scene1.players, Scene1.coins)

\* ticks enough to fill the buffer and go on
StreamLength == BUFFER_CAPACITY + 2

\* snapshots arrive with any timestamps, in any order
NextInterp ==
    \/ \E m \in ClientMessages : Len(state_buffer[1]) < MaxBuffered /\ Receive(1, m)
    \/ \E rt \in RenderTimes : Render(1, rt)

SpecInterp == Init /\ [][NextInterp]_vars

\* snapshots arrive as the ticks produce them
NextBuffer ==
    \/ /\ StreamNext(state_buffer[1]).timestamp < StreamLength
       /\ Receive(1, StreamNext(state_buffer[1]))
    \/ \E rt \in RenderTimes : Render(1, rt)

SpecBuffer == Init /\ [][NextBuffer]_vars

-----------------------------------------------------------------------------
(* Simulation *)

RECURSIVE TotalScore(_)
TotalScore(ps) == IF ps = <<>> THEN 0 ELSE Head(ps).score + TotalScore(Tail(ps))

\* C5: every Player lies within [PLAYER_RADIUS, GAME_WIDTH - PLAYER_RADIUS] x
\* [PLAYER_RADIUS, GAME_HEIGHT - PLAYER_RADIUS], at creation and after every
\* tick, whatever its stored inputs.
C5_PlayersInBounds ==
    \A i \in 1..Len(players) :
       /\ 25 * SCALE <= players[i].x /\ players[i].x <= (500 - 25) * SCALE
       /\ 25 * SCALE <= players[i].y /\ players[i].y <= (375 - 25) * SCALE

\* a Player in the low corner was moving out of the field on both axes when a
\* tick ran, and it stands in the corner still
C5_Witness ==
    /\ ticks > 0
    /\ \E i \in 1..Len(players) :
          \/ /\ players[i].input_x = Num(0 - 1) /\ players[i].input_y = Num(0 - 1)
             /\ players[i].x = 25 * SCALE /\ players[i].y = 25 * SCALE
             /\ players[i].color = 200

\* C6: in a tick every Coin is awarded to at most one Player, each Player's
\* score grows by the number of Coins awarded to it, and the scores grow in
\* total by the number of Coins the tick removes.
C6_OneAwardPerCoin ==
    [][(ticks' # ticks) =>
         LET present == Keys(coins) \cup (coin_counter..(coin_counter' - 1))
             removed == present \ Keys(coins')
         IN  /\ \A c \in present : Cardinality({a \in awards' : a[1] = c}) <= 1
             /\ Len(players') = Len(players)
             /\ \A i \in 1..Len(players) :
                  players'[i].score - players[i].score
                    = Cardinality({a \in awards' : a[2] = players[i].id})
             /\ TotalScore(players') - TotalScore(players) = Cardinality(removed)
             /\ Keys(coins') \subseteq present]_vars

\* a tick has awarded Coins that two Players, standing on the same spot, both
\* reached: all went to the first
C6_Witness ==
    /\ ticks > 0
    /\ Len(players) = 2
    /\ players[1].x = players[2].x /\ players[1].y = players[2].y
    /\ Cardinality(awards) >= 5
    /\ players[1].score >= 5 /\ players[2].score = 0

-----------------------------------------------------------------------------
(* Client buffer and interpolation *)

\* C7: the buffer never holds more than 40 snapshots; a snapshot received when
\* 40 are buffered evicts the oldest one alone and goes last.
C7_BufferBounded ==
    /\ [](\A w \in Sockets : Len(state_buffer[w]) <= 40)
    /\ [][\A w \in Sockets :
            (Len(state_buffer[w]) = 40 /\ state_buffer'[w] # state_buffer[w]) =>
               /\ Len(state_buffer'[w]) = 40
               /\ SubSeq(state_buffer'[w], 1, 39) = Tail(state_buffer[w])
               /\ state_buffer'[w][40] = StreamNext(state_buffer[w])]_vars

\* a 41st snapshot has been received: the buffer holds 40, the first received
\* is gone
C7_Witness ==
    /\ Len(state_buffer[1]) = 40
    /\ state_buffer[1][1].timestamp = 1
    /\ state_buffer[1][40].timestamp = 40

\* what the latest call of get_interpolated_state read
ProbeLen == Len(probe.buf)
ProbeStamps == {probe.buf[i].timestamp : i \in 1..ProbeLen}

\* C8: in each fallback case the call returns one snapshot's players and coins
\* as they are: the empty default with no snapshot, the snapshot with one, the
\* oldest when the render time precedes every timestamp, the newest when the
\* render time is at or past the newest's timestamp.
C8_Fallbacks ==
    /\ ProbeLen = 0 => render = [players |-> <<>>, coins |-> <<>>]
    /\ ProbeLen = 1 =>
         render = [players |-> probe.buf[1].players, coins |-> probe.buf[1].coins]
    /\ (ProbeLen >= 2 /\ \A t \in ProbeStamps : probe.rt < t) =>
         render = [players |-> probe.buf[1].players, coins |-> probe.buf[1].coins]
    /\ (ProbeLen >= 2 /\ probe.rt >= probe.buf[ProbeLen].timestamp) =>
         render = [players |-> probe.buf[ProbeLen].players,
                   coins |-> probe.buf[ProbeLen].coins]

\* the call ran on three snapshots, the newest differing from the older ones,
\* with a render time past the newest's timestamp but before an older one's
C8_Witness ==
    /\ ProbeLen = 3
    /\ probe.rt >= probe.buf[3].timestamp
    /\ probe.rt < probe.buf[2].timestamp
    /\ probe.buf[3].players # probe.buf[2].players
    /\ render.players = probe.buf[3].players

\* the call took the interpolation branch
Interpolated ==
    /\ ProbeLen >= 2
    /\ PrevIndex(probe.buf, probe.rt) \in 1..(ProbeLen - 1)

Between(v, a, b) == (a <= v /\ v <= b) \/ (b <= v /\ v <= a)

\* C9: in the interpolation branch prev.timestamp <= render time <
\* next.timestamp; every Player of next that prev also holds is placed at
\* prev + (next - prev) * alpha, between its two positions, with next's score
\* and colour; the Players are those of next and the Coins are next's.
C9_Interpolation ==
    Interpolated =>
      LET prev == probe.buf[PrevIndex(probe.buf, probe.rt)]
          next == probe.buf[PrevIndex(probe.buf, probe.rt) + 1]
          num == probe.rt - prev.timestamp
          den == next.timestamp - prev.timestamp
      IN  /\ prev.timestamp <= probe.rt /\ probe.rt < next.timestamp
          /\ den > 0 /\ 0 <= num /\ num < den
          /\ render.coins = next.coins
          /\ Len(render.players) = Len(next.players)
          /\ \A k \in 1..Len(next.players) :
               LET r == render.players[k]
                   n == next.players[k]
                   olds == {j \in 1..Len(prev.players) : prev.players[j].id = n.id}
               IN  /\ r.id = n.id /\ r.score = n.score /\ r.color = n.color
                   /\ olds = {} => r = n
                   /\ \A j \in olds :
                        /\ r.x = prev.players[j].x
                                   + ((n.x - prev.players[j].x) * num) \div den
                                   + (IF n.x < prev.players[j].x
                                         /\ ((n.x - prev.players[j].x) * num) % den # 0
                                      THEN 1 ELSE 0)
                        /\ Between(r.x, prev.players[j].x, n.x)
                        /\ Between(r.y, prev.players[j].y, n.y)

\* the branch was taken on a buffer whose timestamps are out of order, with
\* alpha strictly inside (0, 1): a Player stands strictly between its two
\* positions and a Player new in next stands where next has it
C9_Witness ==
    /\ Interpolated
    /\ ProbeLen = 3
    /\ probe.buf[1].timestamp > probe.buf[2].timestamp
    /\ LET prev == probe.buf[PrevIndex(probe.buf, probe.rt)]
           next == probe.buf[PrevIndex(probe.buf, probe.rt) + 1]
       IN  /\ prev.timestamp < probe.rt
           /\ Len(prev.players) = 1 /\ Len(next.players) = 2
           /\ \E k \in 1..2 :
                /\ render.players[k].id = prev.players[1].id
                /\ render.players[k].x > prev.players[1].x
                /\ render.players[k].x < next.players[k].x

-----------------------------------------------------------------------------
(* Broadcast *)

NonDecreasing(buf) ==
    \A i, j \in 1..Len(buf) : i < j => buf[i].timestamp <= buf[j].timestamp

\* C10: every client's buffer receives its snapshots in non-decreasing order of
\* timestamp.
C10_SnapshotsInTickOrder == \A w \in Sockets : NonDecreasing(state_buffer[w])

\* a client has received the snapshots of two ticks taken at different times
C10_Witness ==
    \E w \in Sockets :
       /\ Len(state_buffer[w]) >= 2
       /\ state_buffer[w][1].timestamp < state_buffer[w][2].timestamp

\* C11 as claimed: in an Active session that has ticks left to run, the next
\* tick is enabled whether or not deliveries of earlier snapshots are pending.
C11_TickNeverWaits ==
    (/\ game_started /\ ~stop_event
     /\ lpc \notin {"crashed", "stopped"}
     /\ ticks < MaxTicks
     /\ pending # {}) => ENABLED Tick

-----------------------------------------------------------------------------
(* Inputs under connects and disconnects: the two clients of an Active session
   send inputs and leave, and another client connects *)

\* two directions a client sends
Directions == {InputMsg(Num(1), Num(0)), InputMsg(Num(0), Num(0 - 1))}

NextInput ==
    \/ \E w \in Sockets, data \in Directions : nread < MaxInputs /\ ReadInput(w, data)
    \/ \E task \in inflight : ApplyInput(task)
    \/ \E w \in Sockets : ClientClose(w)
    \/ \E w \in Sockets : Disconnect(w)
    \/ \E w \in Sockets : Connect(w)
    \/ \E w \in Sockets : InitFails(w)
    \/ \E w \in Sockets : JoinStarted(w)
    \/ \E w \in Sockets : JoinSent(w)

SpecInput == InitLoop /\ [][NextInput]_vars

\* The inputs of the two clients of an Active session, several to a client
MaxReads == 2        \* messages the handlers read in these runs

NextOrder ==
    \/ \E w \in Sockets, data \in Directions : nread < MaxReads /\ ReadInput(w, data)
    \/ \E task \in inflight : ApplyInput(task)
    \/ \E w \in Sockets : ClientClose(w)
    \/ \E w \in Sockets : Disconnect(w)

SpecOrder == InitLoop /\ [][NextOrder]_vars

\* C12: a deferred input application that runs after its sender's handler has
\* finished (the Player and the player_id_map entry removed) leaves every
\* Player as it was, also when a later client's Player has the sender's id.
C12_LateInputIsNoOp ==
    [][\A task \in inflight :
         (inflight' = inflight \ {task} /\ hpc[task.ws] = "done") =>
            players' = players]_vars

\* an input ran after its sender had left, while a later client's Player had
\* the id the sender's Player had had; that Player did not take the input
C12_Witness ==
    \E a \in applied :
       /\ a.gone /\ a.taken
       /\ a.data = InputMsg(Num(1), Num(0))
       /\ \E i \in 1..Len(players) :
            /\ players[i].id = hpid[a.ws]
            /\ players[i].input_x = Num(0)

\* C20 as claimed: once every deferred input application of a connected client
\* has run, its Player's inputs are those of the last message the client sent.
C20_LastInputWins ==
    \A w \in connected_clients :
       LET mine == {a \in applied : a.ws = w}
           sole == \A v \in connected_clients \ {w} : player_id_map[v] # player_id_map[w]
       IN  (/\ hpc[w] = "read" /\ sole
            /\ mine # {}
            /\ \A t \in inflight : t.ws # w
            /\ player_id_map[w] \in Keys(players)) =>
              LET last == CHOOSE a \in mine : \A b \in mine : b.seq <= a.seq
                  p == DictGet(players, player_id_map[w])
              IN  /\ p.input_x = GetOrZero(last.data.input_x)
                  /\ p.input_y = GetOrZero(last.data.input_y)

-----------------------------------------------------------------------------
(* Connection closure and the game_start notification *)

\* the handlers that have returned or raised
Ended == {w \in Sockets : hpc[w] \in {"done", "dead"}}

\* C13 as claimed: a handler's end leaves neither its client in
\* connected_clients nor an entry for it in player_id_map, at whatever point the
\* connection closed; once the session has started and every handler has
\* ended, no Player is left and stop_event is set.
C13_ClosureRemovesPlayer ==
    /\ \A w \in Ended : w \notin connected_clients /\ player_id_map[w] = NoId
    /\ (game_started /\ Ended # {} /\ \A w \in Sockets : hpc[w] \in {"idle", "done", "dead"})
          => (players = <<>> /\ stop_event)

\* C14 as claimed: in an Active session no connected client has been sent
\* game_start more than once, and a client whose handler reads its inputs has
\* been sent it once.
C14_GameStartOnce ==
    game_started =>
       \A w \in connected_clients :
          /\ sent[w].game_start <= 1
          /\ (hpc[w] = "read" /\ open[w]) => sent[w].game_start = 1

-----------------------------------------------------------------------------
(* Malformed inbound messages *)

\* a decoded message that is no input message, or whose components are not
\* numbers
Malformed(data) ==
    \/ data.type # "input"
    \/ "str" \in {data.input_x.t, data.input_y.t}

\* line 90 raises on p because a component is not a number: input_x ** 2 is
\* evaluated first
StrRaises(p) ==
    \/ p.input_x.t = "str"
    \/ p.input_x.t # "big" /\ p.input_y.t = "str"

\* C15 as claimed: the application of a malformed message changes no Player, no
\* Coin and no connection, and no tick is ended by what such a message left in
\* a Player.
C15_MalformedIgnored ==
    [][/\ \A task \in inflight :
            (inflight' = inflight \ {task} /\ Malformed(task.data)) =>
               /\ players' = players /\ coins' = coins
               /\ open' = open /\ connected_clients' = connected_clients
       /\ (lpc' = "crashed" /\ lpc # "crashed") =>
             ~StrRaises(players[RaisesAt(players)])]_vars

-----------------------------------------------------------------------------
(* Coins *)

\* the Coins of cs within PLAYER_RADIUS + COIN_RADIUS of a Player of ps
InReach(ps, cs) ==
    {k \in 1..Len(cs) : \E i \in 1..Len(ps) : Collides(cs[k], ps[i])}

\* C17 as claimed: after every simulation tick no Coin left in the store is
\* within PLAYER_RADIUS + COIN_RADIUS of a Player.
C17_NoCoinInReachAfterTick ==
    [][(ticks' # ticks) => InReach(players', coins') = {}]_vars

\* C19: coin_counter equals the number of Coins in the store plus the score
\* increments awarded so far (the Players' scores, no Player having left), in
\* every state and step by step; the Coins of the store have distinct ids, and
\* a spawned Coin's id is above every id given before.
C19_CoinsConserved ==
    /\ [](/\ coin_counter = Len(coins) + TotalScore(players)
          /\ Cardinality(Keys(coins)) = Len(coins)
          /\ \A id \in Keys(coins) : id < coin_counter)
    /\ [][/\ coin_counter' - coin_counter
               = (Len(coins') - Len(coins))
                 + (IF ticks' # ticks THEN Cardinality(awards') ELSE 0)
          /\ Keys(coins') \ Keys(coins) \subseteq coin_counter..(coin_counter' - 1)]_vars

\* the five Coins of the start and a sixth, spawned by a tick, have all been
\* collected
C19_Witness ==
    /\ coin_counter = 6
    /\ coins = <<>>
    /\ TotalScore(players) = 6

-----------------------------------------------------------------------------
(* Broadcasts and the session's states *)

C18_TicksOnlyWhileActive ==
    /\ [](~game_started => coins = <<>> /\ ticks = 0 /\ pending = {})
    /\ [][/\ (ticks' # ticks \/ pending' \ pending # {}) =>
               /\ game_started /\ ~stop_event
               /\ ticks' = ticks + 1
          /\ (ticks' # ticks /\ ticks = 0) =>
               /\ Len(coins) = 5 /\ coin_counter = 5
          /\ ~game_started' =>
               \A i \in 1..Len(players), j \in 1..Len(players') :
                  players[i].id = players'[j].id =>
                     /\ players'[j].x = players[i].x /\ players'[j].y = players[i].y
                     /\ players'[j].score = players[i].score]_vars

\* the session started, ran one tick and stopped when its Players had left; the
\* loop returned with a tick of its budget unused
C18_Witness ==
    /\ stop_event /\ lpc = "stopped"
    /\ ticks = 1
    /\ starts = 1

====
